---------------------------- MODULE Spec2Model ----------------------------
(***************************************************************************)
(* Model of the aerofoil generator scripts bin/naca4series.py and          *)
(* bin/naca5series.py.                                                     *)
(*                                                                         *)
(* Each script is a straight-line program; the model follows one           *)
(* invocation from its input (argv for naca4series, the designation for    *)
(* parse() of naca5series) statement block by statement block.             *)
(*                                                                         *)
(* Numbers.  Python floats are modelled by rationals <<n, d>> (d > 0, in   *)
(* lowest terms).  Arithmetic is exact as long as the result has a         *)
(* denominator of at most Prec; any other result is rounded to the         *)
(* nearest multiple of 1/Prec.  The libm functions (sqrt, cos, sin, atan)  *)
(* are computed by series / Newton iteration in this arithmetic.  IEEE-754 *)
(* rounding itself is not modelled: a value such as m/p^2 is exact here,   *)
(* and a four-decimal literal such as 0.2969 is carried to three decimals. *)
(*                                                                         *)
(* naca5series.  parse() never gets past line 47 (fn = definition[4] on a  *)
(* 4-tuple), so its sampling loop (lines 49-62) and the functions standard *)
(* and reflex are unreachable and have no action.                          *)
(***************************************************************************)
EXTENDS Integers, Sequences, FiniteSets, TLC

(***************************************************************************)
(* Bounds of the model                                                     *)
(***************************************************************************)
\* precision of the number model (denominators kept exact up to Prec)
Prec == 1000
\* largest sample count (-r/--resolution) tried; the parser accepts 3..999
MaxRes == 4

(***************************************************************************)
(* Rational arithmetic                                                     *)
(***************************************************************************)
Abs(n) == IF n < 0 THEN -n ELSE n

RECURSIVE GCD(_, _)
GCD(a, b) == IF b = 0 THEN a ELSE GCD(b, a % b)

\* n/d (d > 0) rounded to the nearest multiple of 1/Prec, in lowest terms
RoundToGrid(n, d) ==
    LET ip == n \div d
        fp == n % d
        k  == ip * Prec + ((fp * Prec + (d \div 2)) \div d)
        g  == GCD(Abs(k), Prec)
    IN  IF k = 0 THEN <<0, 1>> ELSE <<k \div g, Prec \div g>>

\* the number n/d (d # 0) of the number model
Rat(n, d) ==
    LET s  == IF d < 0 THEN -1 ELSE 1
        g  == GCD(Abs(n), Abs(d))
        nn == (s * n) \div g
        dd == (s * d) \div g
    IN  IF n = 0 THEN <<0, 1>>
        ELSE IF dd <= Prec THEN <<nn, dd>>
        ELSE RoundToGrid(nn, dd)

Num(n) == <<n, 1>>
Zero == <<0, 1>>
One == <<1, 1>>
Two == <<2, 1>>

Add(a, b) ==
    LET g == GCD(a[2], b[2])
    IN  Rat(a[1] * (b[2] \div g) + b[1] * (a[2] \div g), (a[2] \div g) * b[2])
Neg(a) == <<-a[1], a[2]>>
Sub(a, b) == Add(a, Neg(b))
Mul(a, b) ==
    LET g1 == GCD(Abs(a[1]), b[2])
        g2 == GCD(Abs(b[1]), a[2])
    IN  Rat((a[1] \div g1) * (b[1] \div g2), (a[2] \div g2) * (b[2] \div g1))
\* b # 0
Div(a, b) == Mul(a, IF b[1] < 0 THEN <<-b[2], -b[1]>> ELSE <<b[2], b[1]>>)
Leq(a, b) == a[1] * b[2] <= b[1] * a[2]
Less(a, b) == a[1] * b[2] < b[1] * a[2]
IsZero(a) == a[1] = 0

\* Python's a**k for a small non-negative integer exponent k
RECURSIVE Pow(_, _)
Pow(a, k) == IF k = 0 THEN One ELSE Mul(a, Pow(a, k - 1))

(***************************************************************************)
(* The math library functions used by naca4series, in the number model    *)
(***************************************************************************)
\* math.pi
Pi == Rat(3141593, 1000000)

\* the numerator of a on the grid 1/Prec: round(a * Prec)
GridNum(a) ==
    LET ip == a[1] \div a[2]
        fp == a[1] % a[2]
    IN  ip * Prec + ((fp * Prec + (a[2] \div 2)) \div a[2])

\* Newton iteration for the integer square root, from the guess r >= sqrt(n)
RECURSIVE SqrtIter(_, _)
SqrtIter(n, r) ==
    LET nxt == (r + (n \div r)) \div 2
    IN  IF nxt >= r THEN r ELSE SqrtIter(n, nxt)

\* the integer nearest to sqrt(n), n >= 0
ISqrt(n) ==
    IF n = 0 THEN 0
    ELSE LET r == SqrtIter(n, n)
         IN  IF n - r * r > r THEN r + 1 ELSE r

\* math.sqrt(a) for a >= 0 (a < 0 is a ValueError, see Thickness)
Sqrt(a) == Rat(ISqrt(GridNum(a) * Prec), Prec)

\* sum of the series whose term number k is t and whose next term is
\* -t * a2 / ((k1)(k1+1)); k1 is the first factor of the next denominator
RECURSIVE TrigSeries(_, _, _, _)
TrigSeries(t, a2, k1, acc) ==
    IF IsZero(t) THEN acc
    ELSE TrigSeries(Neg(Div(Mul(t, a2), Num(k1 * (k1 + 1)))), a2, k1 + 2,
                    Add(acc, t))

\* math.cos(a) = 1 - a^2/2! + a^4/4! - ...
Cos(a) == TrigSeries(One, Mul(a, a), 1, Zero)

\* math.sin(a) = a - a^3/3! + a^5/5! - ...
Sin(a) == TrigSeries(a, Mul(a, a), 2, Zero)

\* sum of u - u^3/3 + u^5/5 - ...; p is the current odd power (with sign)
RECURSIVE AtanSeries(_, _, _, _)
AtanSeries(p, u2, k, acc) ==
    LET t == Div(p, Num(k))
    IN  IF IsZero(t) THEN acc
        ELSE AtanSeries(Neg(Mul(p, u2)), u2, k + 2, Add(acc, t))

\* math.atan(s) = 2 atan(s / (1 + sqrt(1 + s^2)))
Atan(s) ==
    LET u == Div(s, Add(One, Sqrt(Add(One, Mul(s, s)))))
    IN  Mul(Two, AtanSeries(u, Mul(u, u), 1, Zero))

(***************************************************************************)
(* Python strings and lists                                                *)
(***************************************************************************)
\* a string is modelled as the sequence of its characters
Digits == {"0", "1", "2", "3", "4", "5", "6", "7", "8", "9"}

\* str.isdigit()
IsDigitString(string) ==
    Len(string) > 0 /\ \A k \in 1..Len(string) : string[k] \in Digits

\* the value of one decimal digit character
DigitVal(c) ==
    CASE c = "0" -> 0 [] c = "1" -> 1 [] c = "2" -> 2 [] c = "3" -> 3
      [] c = "4" -> 4 [] c = "5" -> 5 [] c = "6" -> 6 [] c = "7" -> 7
      [] c = "8" -> 8 [] c = "9" -> 9

\* int(string) for a string of decimal digits
RECURSIVE IntOf(_)
IntOf(string) ==
    IF Len(string) = 0 THEN 0
    ELSE 10 * IntOf(SubSeq(string, 1, Len(string) - 1))
         + DigitVal(string[Len(string)])

\* float(string) for a string of decimal digits
FloatOf(string) == Num(IntOf(string))

\* string[a:b] (0 <= a <= b <= len)
Slice(string, a, b) == SubSeq(string, a + 1, b)

\* whether list[k] exists; a negative k counts from the end
PyInRange(list, k) ==
    LET kk == IF k < 0 THEN k + Len(list) ELSE k
    IN  0 <= kk /\ kk < Len(list)

\* list[k], given PyInRange(list, k)
PyAt(list, k) == list[(IF k < 0 THEN k + Len(list) ELSE k) + 1]

(***************************************************************************)
(* naca4series: the argument parser                                        *)
(***************************************************************************)
\* valid_naca4 does not raise argparse.ArgumentTypeError
valid_naca4(string) == ~((Len(string) # 4) \/ (~IsDigitString(string)))

\* choices of -r/--resolution: range(3, 1000)
ResChoices == 3..999
\* choices of -s/--spacing
SpacingChoices == {"cos", "2cos", "lin"}
\* choices of -p/--plane
PlaneChoices == {"xy", "xz", "yz"}

\* parser.parse_args() accepts the command line
ParserAccepts(a) ==
    /\ valid_naca4(a.MPTT)
    /\ a.res \in ResChoices
    /\ a.spacing \in SpacingChoices
    /\ a.plane \in PlaneChoices

(***************************************************************************)
(* naca4series: auxiliary functions and the camber line x-coordinates      *)
(***************************************************************************)
\* linspace(a, b, N): N == 1 returns the scalar b
linspace(a, b, N) ==
    IF N = 1 THEN b
    ELSE LET h == Div(Sub(b, a), Num(N - 1))
         IN  [n \in 1..N |-> Add(a, Mul(h, Num(n - 1)))]

\* cos(x): math.cos mapped over the list x
cos(xs) == [n \in 1..Len(xs) |-> Cos(xs[n])]

\* dealzeros(N, M): M lists of N zeros; one of them
zeros(N) == [n \in 1..N |-> Zero]

\* the 'cos' spacing
SpacingCos(res) ==
    LET c == cos(linspace(Zero, Pi, res))
    IN  [n \in 1..Len(c) |-> Div(Sub(One, c[n]), Two)]

\* the '2cos' spacing with the "1.0 -" forgotten
Spacing2CosNoFlip(res) == cos(linspace(Zero, Div(Pi, Two), res))

\* the '2cos' spacing
Spacing2Cos(res) ==
    LET c == cos(linspace(Zero, Div(Pi, Two), res))
    IN  [n \in 1..Len(c) |-> Sub(One, c[n])]

\* the 'lin' spacing
SpacingLin(res) == linspace(Zero, One, res)

\* the if/elif chain on args.spacing
CamberlineX(spacing, res) ==
    CASE spacing = "cos"  -> SpacingCos(res)
      [] spacing = "2cos" -> Spacing2Cos(res)
      [] spacing = "lin"  -> SpacingLin(res)

(***************************************************************************)
(* naca4series: values from the NACA definition                            *)
(***************************************************************************)
\* maximum camber
ExtractM(MPTT) == Div(FloatOf(<<PyAt(MPTT, 0)>>), Num(100))
\* location of maximum camber
ExtractP(MPTT) == Div(FloatOf(<<PyAt(MPTT, 1)>>), Num(10))
\* maximum thickness: the slice [2:3]
ExtractT(MPTT) == Div(FloatOf(Slice(MPTT, 2, 3)), Num(100))

(***************************************************************************)
(* naca4series: one sample of the calculation loop                         *)
(***************************************************************************)
\* a decimal literal n / 10^4
Lit4(n) == Rat(n, 10000)

\* the thickness y_t at x_c >= 0
Thickness(x_c, T) ==
    Mul(Div(T, Rat(20, 100)),
        Sub(Add(Sub(Sub(Mul(Lit4(2969), Sqrt(x_c)),
                        Mul(Lit4(1260), x_c)),
                    Mul(Lit4(3516), Pow(x_c, 2))),
                Mul(Lit4(2843), Pow(x_c, 3))),
            Mul(Lit4(1015), Pow(x_c, 4))))

\* the branch 0 <= x_c <= P of the cambered case: <<y_c, dycdx>>  (P # 0)
CamberFirst(x_c, M, P) ==
    << Mul(Div(M, Pow(P, 2)), Sub(Mul(Mul(Two, P), x_c), Pow(x_c, 2))),
       Mul(Div(Mul(Two, M), Pow(P, 2)), Sub(P, x_c)) >>

\* the else branch with (1-2*P) written as (1-P)
CamberSecondSlip(x_c, M, P) ==
    << Mul(Div(M, Pow(Sub(One, P), 2)),
           Sub(Add(Sub(One, P), Mul(Mul(Two, P), x_c)), Pow(x_c, 2))),
       Mul(Div(Mul(Two, M), Pow(Sub(One, P), 2)), Sub(P, x_c)) >>

\* the else branch of the cambered case: <<y_c, dycdx>>  (P # 1)
CamberSecond(x_c, M, P) ==
    << Mul(Div(M, Pow(Sub(One, P), 2)),
           Sub(Add(Sub(One, Mul(Two, P)), Mul(Mul(Two, P), x_c)),
               Pow(x_c, 2))),
       Mul(Div(Mul(Two, M), Pow(Sub(One, P), 2)), Sub(P, x_c)) >>

\* the condition of the first cambered branch
InFirstBranch(x_c, P) == Leq(Zero, x_c) /\ Leq(x_c, P)

\* the camber evaluation: which path is taken, the error it raises ("" for
\* none) and the pair <<y_c, dycdx>>
Camber(x_c, M, P) ==
    IF IsZero(M) /\ IsZero(P)
    THEN [path |-> "symmetrical", err |-> "", val |-> <<Zero, Zero>>]
    ELSE IF InFirstBranch(x_c, P)
    THEN IF IsZero(Pow(P, 2))
         THEN [path |-> "first", err |-> "ZeroDivisionError",
               val |-> <<Zero, Zero>>]
         ELSE [path |-> "first", err |-> "", val |-> CamberFirst(x_c, M, P)]
    ELSE IF IsZero(Pow(Sub(One, P), 2))
         THEN [path |-> "second", err |-> "ZeroDivisionError",
               val |-> <<Zero, Zero>>]
         ELSE [path |-> "second", err |-> "", val |-> CamberSecond(x_c, M, P)]

\* upper surface point from the camber point, the thickness and theta
UpperPoint(x_c, y_c, y_t, theta) ==
    << Sub(x_c, Mul(y_t, Sin(theta))), Add(y_c, Mul(y_t, Cos(theta))) >>

\* lower surface point
LowerPoint(x_c, y_c, y_t, theta) ==
    << Add(x_c, Mul(y_t, Sin(theta))), Sub(y_c, Mul(y_t, Cos(theta))) >>

(***************************************************************************)
(* naca5series: the mean line table and parse()                            *)
(***************************************************************************)
\* table[designation] = (r, k1, fn, descr)
meanline_table ==
    [key \in {<<"2", "1", "0">>, <<"2", "2", "0">>, <<"2", "3", "0">>,
              <<"2", "4", "0">>, <<"2", "5", "0">>, <<"2", "2", "1">>,
              <<"2", "3", "1">>, <<"2", "4", "1">>, <<"2", "5", "1">>} |->
        CASE key = <<"2", "1", "0">> -> <<Lit4(580),  Rat(3614, 10),    "standard", "05% standard">>
          [] key = <<"2", "2", "0">> -> <<Lit4(1260), Rat(5164, 100),   "standard", "10% standard">>
          [] key = <<"2", "3", "0">> -> <<Lit4(2025), Rat(15957, 1000), "standard", "15% standard">>
          [] key = <<"2", "4", "0">> -> <<Lit4(2900), Rat(6643, 1000),  "standard", "20% standard">>
          [] key = <<"2", "5", "0">> -> <<Lit4(3910), Rat(3230, 1000),  "standard", "25% standard">>
          [] key = <<"2", "2", "1">> -> <<Lit4(1300), Rat(51990, 1000), "reflex", "10% reflex">>
          [] key = <<"2", "3", "1">> -> <<Lit4(2170), Rat(15793, 1000), "reflex", "15% reflex">>
          [] key = <<"2", "4", "1">> -> <<Lit4(3180), Rat(6520, 1000),  "reflex", "20% reflex">>
          [] key = <<"2", "5", "1">> -> <<Lit4(4410), Rat(3191, 1000),  "reflex", "25% reflex">>]

\* a lookup that substitutes a zero-filled entry (dict.get with a default)
TableLookupDefault(key) ==
    IF key \in DOMAIN meanline_table
    THEN [err |-> "", definition |-> meanline_table[key]]
    ELSE [err |-> "", definition |-> <<Zero, Zero, "standard", "">>]

\* meanline_table[key]: the entry, or a KeyError
TableLookup(key) ==
    IF key \in DOMAIN meanline_table
    THEN [err |-> "", definition |-> meanline_table[key]]
    ELSE [err |-> "KeyError", definition |-> <<>>]

(***************************************************************************)
(* Inputs                                                                  *)
(***************************************************************************)
\* the digit with value n
DigitChar(n) == CHOOSE c \in Digits : DigitVal(c) = n

\* four-digit designations: every M and P digit with thickness 12
AllCambers == { <<DigitChar(m), DigitChar(pp), "1", "2">> : m \in 0..9, pp \in 0..9 }

\* designations run with every output option
SomeDesignations ==
    { <<"0", "0", "1", "2">>, <<"2", "4", "1", "2">>, <<"2", "5", "0", "9">>,
      <<"1", "0", "1", "2">>, <<"4", "4", "2", "1">> }

\* strings valid_naca4 rejects
BadDesignations ==
    { <<"2", "4", "1">>, <<"2", "4", "1", "2", "0">>, <<"2", "4", "a", "2">> }

Chords == { One, Rat(5, 2) }
ZVals == { Rat(3, 2) }

\* an accepted command line
Args(MPTT, res, chord, spacing, zval, plane, mcl) ==
    [MPTT |-> MPTT, res |-> res, chord |-> chord, spacing |-> spacing,
     zval |-> zval, plane |-> plane, meancamberline |-> mcl]

\* command lines of naca4series
Argvs ==
    { Args(d, r, One, s, Rat(3, 2), "xy", FALSE) :
        d \in AllCambers, r \in 3..MaxRes, s \in SpacingChoices }
    \cup
    { Args(d[1], d[2], d[3], d[4], d[5], d[6], d[7]) :
        d \in SomeDesignations \X (3..MaxRes) \X Chords \X SpacingChoices
              \X ZVals \X PlaneChoices \X BOOLEAN }
    \cup
    { Args(d, 3, One, "cos", Zero, "xy", FALSE) : d \in BadDesignations }
    \cup
    { Args(<<"2", "4", "1", "2">>, r, One, "cos", Zero, "xy", FALSE) :
        r \in {2, 1000} }
    \cup
    { Args(<<"2", "4", "1", "2">>, 3, One, s, Zero, pl, FALSE) :
        s \in {"cos", "exp"}, pl \in {"xy", "zx"} }

\* five-digit designations handed to parse()
FiveDigits ==
    { <<a, b, c, d, e>> : a \in {"2", "3"}, b \in Digits,
                          c \in {"0", "1", "2"}, d \in {"0", "1"}, e \in {"0", "2"} }

(***************************************************************************)
(* State                                                                   *)
(***************************************************************************)
VARIABLES
    script,       \* which script runs: "naca4series" or "naca5series"
    pc,           \* the statement block the script is at
    err,          \* the exception that ended the script ("" for none)
    args,         \* naca4series: the command line / parsed arguments
    x,            \* naca4series: camberline x-coordinates
    M, P, T,      \* naca4series: values of the NACA definition
    i,            \* naca4series: index of the current loop
    x_C, y_C,     \* naca4series: mean camber line
    x_U, y_U,     \* naca4series: upper surface
    x_L, y_L,     \* naca4series: lower surface
    path,         \* naca4series: the camber path taken for each sample
    out,          \* naca4series: rows written by writer.writerow
    fivedigits,   \* naca5series: the argument of parse()
    p, x_cmax,    \* naca5series: locals of parse()
    definition,   \* naca5series: the table entry
    stdout        \* naca5series: what was printed

vars4 == <<args, x, M, P, T, i, x_C, y_C, x_U, y_U, x_L, y_L, path, out>>
vars5 == <<fivedigits, p, x_cmax, definition, stdout>>
vars == <<script, pc, err, vars4, vars5>>

Npts == Len(x)

NoArgs == Args(<<>>, 0, Zero, "", Zero, "", FALSE)

Init4 ==
    /\ script = "naca4series"
    /\ args \in Argvs
    /\ fivedigits = <<>>

Init5 ==
    /\ script = "naca5series"
    /\ args = NoArgs
    /\ fivedigits \in FiveDigits

Init ==
    /\ (Init4 \/ Init5)
    /\ pc = "start"
    /\ err = ""
    /\ x = <<>>
    /\ M = Zero /\ P = Zero /\ T = Zero
    /\ i = 0
    /\ x_C = <<>> /\ y_C = <<>>
    /\ x_U = <<>> /\ y_U = <<>>
    /\ x_L = <<>> /\ y_L = <<>>
    /\ path = <<>>
    /\ out = <<>>
    /\ p = Zero
    /\ x_cmax = 0
    /\ definition = <<>>
    /\ stdout = <<>>

(***************************************************************************)
(* naca4series                                                             *)
(***************************************************************************)
\* the script ends with an uncaught exception (or the parser's error exit)
Raise(e) == pc' = "error" /\ err' = e

\* args = parser.parse_args()
ParseArgs ==
    /\ script = "naca4series" /\ pc = "start"
    /\ IF ParserAccepts(args)
       THEN pc' = "spacing" /\ err' = err
       ELSE Raise("ArgumentError")
    /\ UNCHANGED <<script, vars4, vars5>>

\* camberline x-coordinates
Spacing ==
    /\ script = "naca4series" /\ pc = "spacing"
    /\ x' = CamberlineX(args.spacing, args.res)
    /\ pc' = "extract"
    /\ UNCHANGED <<script, err, args, M, P, T, i, x_C, y_C, x_U, y_U, x_L, y_L,
                   path, out, vars5>>

\* extract values from the NACA definition; initialise all lists
Extract ==
    /\ script = "naca4series" /\ pc = "extract"
    /\ M' = ExtractM(args.MPTT)
    /\ P' = ExtractP(args.MPTT)
    /\ T' = ExtractT(args.MPTT)
    /\ x_C' = zeros(Npts) /\ y_C' = zeros(Npts)
    /\ x_U' = zeros(Npts) /\ y_U' = zeros(Npts)
    /\ x_L' = zeros(Npts) /\ y_L' = zeros(Npts)
    /\ path' = [n \in 1..Npts |-> ""]
    /\ i' = 0
    /\ pc' = "compute"
    /\ UNCHANGED <<script, err, args, x, out, vars5>>

\* one iteration of the calculation loop: sample i
Compute ==
    /\ script = "naca4series" /\ pc = "compute"
    /\ \E x_c \in {PyAt(x, i)} :
       \E cam \in {Camber(x_c, M, P)} :
         IF Less(x_c, Zero)
         THEN \* math.sqrt of a negative number
              /\ Raise("ValueError")
              /\ UNCHANGED <<i, x_C, y_C, x_U, y_U, x_L, y_L, path>>
         ELSE IF cam.err # ""
         THEN /\ Raise(cam.err)
              /\ path' = [path EXCEPT ![i + 1] = cam.path]
              /\ UNCHANGED <<i, x_C, y_C, x_U, y_U, x_L, y_L>>
         ELSE \E y_t \in {Thickness(x_c, T)}, y_c \in {cam.val[1]},
                 dycdx \in {cam.val[2]} :
              \E theta \in {Atan(dycdx)} :
              \E up \in {UpperPoint(x_c, y_c, y_t, theta)},
                 lo \in {LowerPoint(x_c, y_c, y_t, theta)} :
                /\ x_C' = [x_C EXCEPT ![i + 1] = x_c]
                /\ y_C' = [y_C EXCEPT ![i + 1] = y_c]
                /\ x_U' = [x_U EXCEPT ![i + 1] = up[1]]
                /\ y_U' = [y_U EXCEPT ![i + 1] = up[2]]
                /\ x_L' = [x_L EXCEPT ![i + 1] = lo[1]]
                /\ y_L' = [y_L EXCEPT ![i + 1] = lo[2]]
                /\ path' = [path EXCEPT ![i + 1] = cam.path]
                /\ IF i + 1 < Npts
                   THEN i' = i + 1 /\ pc' = "compute"
                   ELSE i' = 0 /\ pc' = "export"
                /\ err' = err
    /\ UNCHANGED <<script, args, x, M, P, T, out, vars5>>

\* the upper surface read forwards
UpperIndexForward(k) == k

\* index into x_U, y_U while going backwards
UpperIndex(k) == -1 - k

\* the lower surface index one too far
LowerIndexOffByOne(k, N) == k - N + 1

\* index into x_L, y_L while going forward
LowerIndex(k, N) == k - N

\* a skip test that no iteration satisfies
SkipNever(k, N) == k = 2 * N

\* the iteration that is skipped in full-section mode (duplicate LE)
SkipDuplicate(k, N) == k = N

\* what iteration i of the export loop selects: "skip" (continue), "point"
\* (x_i and y_i) or "IndexError"
ExportSelect ==
    IF args.meancamberline
    THEN IF i >= Npts THEN [kind |-> "skip"]
         ELSE IF PyInRange(x_C, i)
              THEN [kind |-> "point", x_i |-> PyAt(x_C, i), y_i |-> PyAt(y_C, i)]
              ELSE [kind |-> "IndexError"]
    ELSE IF i < Npts
         THEN IF PyInRange(x_U, UpperIndex(i))
              THEN [kind |-> "point", x_i |-> PyAt(x_U, UpperIndex(i)),
                    y_i |-> PyAt(y_U, UpperIndex(i))]
              ELSE [kind |-> "IndexError"]
         ELSE IF SkipDuplicate(i, Npts) THEN [kind |-> "skip"]
         ELSE IF PyInRange(x_L, LowerIndex(i, Npts))
              THEN [kind |-> "point", x_i |-> PyAt(x_L, LowerIndex(i, Npts)),
                    y_i |-> PyAt(y_L, LowerIndex(i, Npts))]
              ELSE [kind |-> "IndexError"]

\* the 'yz' plane written in 'xy' order
PlaneRowYZAsXY(x_i, y_i, chord, zval, plane) ==
    LET xs  == Mul(x_i, chord)
        ys  == Mul(y_i, chord)
        z_i == zval
    IN  CASE plane = "xy" -> <<xs, ys, z_i>>
          [] plane = "xz" -> <<xs, z_i, ys>>
          [] plane = "yz" -> <<xs, ys, z_i>>

\* transform, and assign to the correct plane
PlaneRow(x_i, y_i, chord, zval, plane) ==
    LET xs  == Mul(x_i, chord)
        ys  == Mul(y_i, chord)
        z_i == zval
    IN  CASE plane = "xy" -> <<xs, ys, z_i>>
          [] plane = "xz" -> <<xs, z_i, ys>>
          [] plane = "yz" -> <<z_i, xs, ys>>

\* one iteration of the export loop: i in range(2*Npts)
Export ==
    /\ script = "naca4series" /\ pc = "export"
    /\ LET sel == ExportSelect
       IN  IF sel.kind = "IndexError"
           THEN Raise("IndexError") /\ UNCHANGED <<i, out>>
           ELSE /\ out' = IF sel.kind = "skip" THEN out
                          ELSE Append(out, PlaneRow(sel.x_i, sel.y_i, args.chord,
                                                    args.zval, args.plane))
                /\ IF i + 1 < 2 * Npts
                   THEN i' = i + 1 /\ pc' = "export"
                   ELSE i' = i /\ pc' = "done"
                /\ err' = err
    /\ UNCHANGED <<script, args, x, M, P, T, x_C, y_C, x_U, y_U, x_L, y_L, path,
                   vars5>>

(***************************************************************************)
(* naca5series: parse(fivedigits)                                          *)
(***************************************************************************)
\* p = 0.1*3/2*int(fivedigits[0]);  x_cmax = 5*int(fivedigits[1])
ParseLocals ==
    /\ script = "naca5series" /\ pc = "start"
    /\ p' = Mul(Div(Mul(Rat(1, 10), Num(3)), Two),
                Num(IntOf(<<PyAt(fivedigits, 0)>>)))
    /\ x_cmax' = 5 * IntOf(<<PyAt(fivedigits, 1)>>)
    /\ pc' = "lookup"
    /\ UNCHANGED <<script, err, vars4, fivedigits, definition, stdout>>

\* definition = meanline_table[fivedigits[0:3]]
ParseLookup ==
    /\ script = "naca5series" /\ pc = "lookup"
    /\ LET r == TableLookup(Slice(fivedigits, 0, 3))
       IN  IF r.err # ""
           THEN Raise(r.err) /\ definition' = definition
           ELSE definition' = r.definition /\ pc' = "fn" /\ err' = err
    /\ UNCHANGED <<script, vars4, fivedigits, p, x_cmax, stdout>>

\* fn = definition[4]: the entries are 4-tuples
ParseFn ==
    /\ script = "naca5series" /\ pc = "fn"
    /\ IF PyInRange(definition, 4)
       THEN pc' = "loop" /\ err' = err
       ELSE Raise("IndexError")
    /\ UNCHANGED <<script, vars4, vars5>>

Next4 == ParseArgs \/ Spacing \/ Extract \/ Compute \/ Export
Next5 == ParseLocals \/ ParseLookup \/ ParseFn
Next == Next4 \/ Next5

Spec == Init /\ [][Next]_vars

(***************************************************************************)
(* Properties                                                              *)
(***************************************************************************)
Running4 == script = "naca4series"
Computed == Running4 /\ pc \in {"export", "done"}
FullSection == Computed /\ ~args.meancamberline

\* the row expected for the point (px, py): in-plane coordinates scaled by
\* the chord, the off-plane value in the column the plane does not name
ExpectedRow(px, py) ==
    IF args.plane = "xy" THEN <<Mul(px, args.chord), Mul(py, args.chord), args.zval>>
    ELSE IF args.plane = "xz" THEN <<Mul(px, args.chord), args.zval, Mul(py, args.chord)>>
    ELSE <<args.zval, Mul(px, args.chord), Mul(py, args.chord)>>

\* upper points of samples N-1 .. 0, then lower points of samples 1 .. N-1
FullSequence ==
    [k \in 1..(2 * Npts - 1) |->
        IF k <= Npts
        THEN ExpectedRow(x_U[Npts - k + 1], y_U[Npts - k + 1])
        ELSE ExpectedRow(x_L[k - Npts + 1], y_L[k - Npts + 1])]

\* C1: in full-section mode the rows written so far are always a prefix of
\* the sequence upper[N-1], ..., upper[0], lower[1], ..., lower[N-1], and
\* at the end of the export loop the whole sequence has been written (so
\* the leading edge appears once, and the upper and lower trailing-edge
\* points are the first and the last row).
C1_FullSectionOrder ==
    FullSection =>
        /\ Len(out) <= 2 * Npts - 1
        /\ out = SubSeq(FullSequence, 1, Len(out))
        /\ (pc = "done" => out = FullSequence)

\* a finished full-section run: trailing-edge rows first and last, the
\* leading edge in the middle, distinct upper and lower points around it
C1_Witness ==
    /\ FullSection /\ pc = "done" /\ Npts >= 4
    /\ out[1] = ExpectedRow(x_U[Npts], y_U[Npts])
    /\ out[Npts] = ExpectedRow(x_U[1], y_U[1])
    /\ out[Len(out)] = ExpectedRow(x_L[Npts], y_L[Npts])
    /\ out[Npts - 1] # out[Npts + 1]

\* C2: when the export loop has finished, 2N-1 rows have been written in
\* full-section mode and N rows in mean-camber-line mode, N being the
\* accepted sample count; in mean-camber-line mode row k is the camber
\* point of sample k-1.
C2_RowCount ==
    (Running4 /\ pc = "done") =>
        /\ Npts = args.res
        /\ args.res \in ResChoices
        /\ IF args.meancamberline
           THEN /\ Len(out) = args.res
                /\ \A k \in 1..Len(out) : out[k] = ExpectedRow(x_C[k], y_C[k])
           ELSE Len(out) = 2 * args.res - 1

\* a finished mean-camber-line run of a cambered section
C2_Witness ==
    /\ Running4 /\ pc = "done" /\ args.meancamberline
    /\ args.res >= 4 /\ Len(out) = args.res
    /\ ~IsZero(y_C[2])

\* C3: after the extraction, M = d1/100, P = d2/10 and T = (d3 d4)/100.
C3_Decode ==
    (Running4 /\ pc \in {"compute", "export", "done"}) =>
        /\ M = Rat(DigitVal(args.MPTT[1]), 100)
        /\ P = Rat(DigitVal(args.MPTT[2]), 10)
        /\ T = Rat(10 * DigitVal(args.MPTT[3]) + DigitVal(args.MPTT[4]), 100)

\* C4: for a designation valid_naca4 accepts, no sample of the compute loop
\* raises an error.
C4_CamberTotal ==
    (Running4 /\ valid_naca4(args.MPTT)) =>
        err \notin {"ZeroDivisionError", "ValueError"}

\* C5: a run that ended in an error has written no row.
C5_NoPartialOutput ==
    (Running4 /\ pc = "error") => (err # "" /\ out = <<>>)

\* an error raised while computing a sample
C5_Witness ==
    /\ Running4 /\ pc = "error" /\ err = "ZeroDivisionError"
    /\ ParserAccepts(args) /\ out = <<>>

\* C6: for a designation whose prefix is a key of meanline_table, parse
\* does not raise.
C6_ParseReturns ==
    (script = "naca5series" /\ Slice(fivedigits, 0, 3) \in DOMAIN meanline_table)
        => pc # "error"

\* C7: for a prefix that is not a key of meanline_table, parse ends at the
\* table access with a KeyError: no entry is substituted and nothing is
\* printed.
C7_LookupError ==
    (/\ script = "naca5series"
     /\ Slice(fivedigits, 0, 3) \notin DOMAIN meanline_table
     /\ pc \notin {"start", "lookup"}) =>
        /\ pc = "error" /\ err = "KeyError"
        /\ definition = <<>>
        /\ stdout = <<>>

\* the unreported prefix 211 has raised the KeyError
C7_Witness ==
    /\ script = "naca5series" /\ pc = "error" /\ err = "KeyError"
    /\ Slice(fivedigits, 0, 3) = <<"2", "1", "1">>

\* C8: for M > 0 and P > 0 both branch formulas give the same y_c at
\* x = P, and a sample is evaluated by the first branch exactly when
\* x <= P (so also at x = P).
C8_Continuity ==
    (Running4 /\ pc \in {"compute", "export", "done"}
              /\ ~IsZero(M) /\ ~IsZero(P)) =>
        /\ CamberFirst(P, M, P)[1] = CamberSecond(P, M, P)[1]
        /\ \A k \in 1..Npts :
             path[k] # "" =>
               /\ (x[k] = P => path[k] = "first" /\ y_C[k] = CamberFirst(P, M, P)[1])
               /\ (Less(P, x[k]) <=> path[k] = "second")

\* a sample exactly at x = P of a cambered section
C8_Witness ==
    /\ Computed /\ ~IsZero(M)
    /\ \E k \in 1..Npts : x[k] = P /\ path[k] = "first" /\ y_C[k] = M

\* C9: every row has three components: the off-plane value, unscaled, in
\* the column of the axis the plane does not name, and in the other two
\* columns, in order, the x and y of a computed point times the chord.
C9_RowLayout ==
    Computed =>
        \A k \in 1..Len(out) :
          /\ Len(out[k]) = 3
          /\ \E n \in 1..Npts :
             \E pt \in { <<x_C[n], y_C[n]>>, <<x_U[n], y_U[n]>>, <<x_L[n], y_L[n]>> } :
               /\ args.plane = "xy" =>
                    out[k] = <<Mul(pt[1], args.chord), Mul(pt[2], args.chord), args.zval>>
               /\ args.plane = "xz" =>
                    out[k] = <<Mul(pt[1], args.chord), args.zval, Mul(pt[2], args.chord)>>
               /\ args.plane = "yz" =>
                    out[k] = <<args.zval, Mul(pt[1], args.chord), Mul(pt[2], args.chord)>>

\* a finished run in the yz plane with a chord other than 1
C9_Witness ==
    /\ Computed /\ pc = "done" /\ args.plane = "yz" /\ args.chord # One
    /\ out[1][1] = args.zval
    /\ out[1][2] # x_U[Npts]

\* C10: sample 0 has x = 0 and y_t = 0 in every spacing mode, so once it
\* is computed its upper, lower and camber points are the same point.
C10_LeadingEdge ==
    /\ (Running4 /\ pc \in {"extract", "compute", "export", "done"}) =>
           x[1] = Zero
    /\ (Running4 /\ ((pc = "compute" /\ i >= 1) \/ pc \in {"export", "done"})) =>
           /\ x_C[1] = Zero
           /\ Thickness(x_C[1], T) = Zero
           /\ <<x_U[1], y_U[1]>> = <<x_C[1], y_C[1]>>
           /\ <<x_L[1], y_L[1]>> = <<x_C[1], y_C[1]>>

\* the export loop has just skipped the duplicate leading-edge point
C10_Witness ==
    /\ FullSection /\ pc = "export" /\ i = Npts + 1
    /\ args.spacing = "2cos" /\ ~IsZero(M) /\ ~IsZero(T)
    /\ Len(out) = Npts

=============================================================================
